---- MODULE Spec2Model ----
(***************************************************************************)
(* The event loop of skim's Model (src/src/model.rs): Model::start and     *)
(* Model::restart_matcher, together with the collaborators the loop        *)
(* drives (Query, Reader, Matcher, ItemPool, Selection).  The collaborators*)
(* live in other modules of the crate; they are modelled from their        *)
(* documented contracts.                                                   *)
(*                                                                         *)
(* An Option<T> is a sequence of length 0 (None) or 1 (Some).              *)
(***************************************************************************)
EXTENDS Integers, Sequences, FiniteSets, TLC

\* ------------------------------------------------------------------ bounds
\* number of user edits (Query key events and mode rotations) explored
MaxChanges == 2

\* bound: tokens in a preview-window option text
MaxTokens == 3

\* ------------------------------------------------------------- vocabulary
DontClear == "DontClear"
Clear == "Clear"
ClearIfNotNull == "ClearIfNotNull"
ClearStrategy == {DontClear, Clear, ClearIfNotNull}

\* MatcherMode as held in Model.matcher_mode : Option<MatcherMode>
ModeDefault == <<>>
ModeRegex == <<"Regex">>

\* the filter queries and command queries a user types in the model
FilterQueries == {<<>>, <<"a">>, <<"a", "b">>}
CmdQueries == {"", "x"}

\* the reader command template and its replacement string
BaseCmd == <<"ls", "{}">>
ReplStr == "{}"

\* Query::get_cmd : the template with the command query substituted
GetCmd(cmd_query) ==
    [i \in 1..Len(BaseCmd) |-> IF BaseCmd[i] = ReplStr THEN cmd_query ELSE BaseCmd[i]]

\* what the subprocess of a reader command prints, line by line
Output(c) ==
    IF c = GetCmd("") THEN << <<"a", "b">>, <<"a", "x", "b">>, <<"b">> >>
    ELSE << >>

\* ----------------------------------------------------------------- state
VARIABLES
    qry,              \* Query component: [query, cmd_query]
    cmd,              \* local `cmd` of Model::start
    query,            \* local `query` of Model::start
    clear_selection,  \* local `clear_selection` of Model::start
    reader_control,   \* Option<ReaderControl>
    matcher_control,  \* Option<MatcherControl>
    matcher_mode,     \* Option<MatcherMode>
    item_pool,        \* ItemPool: [items, cursor]
    selection,        \* Selection: the matched items it holds
    live_readers,     \* reader workers started and not yet killed
    live_matchers,    \* matcher workers started and not yet killed or drained
    runs,             \* number of Reader::run calls so far
    trace,            \* the steps of the last loop iteration, in order
    pc,               \* "loop" while start is in its loop, "returned" after
    ret,              \* Option<SkimOutput> returned by start
    changes,          \* user edits so far
    last_change,      \* what the last user edit changed
    preview_window,   \* options.preview_window, a sequence of characters
    preview           \* Option of (direction, size, wrap, shown) set by parse_options

vars == <<qry, cmd, query, clear_selection, reader_control, matcher_control,
          matcher_mode, item_pool, selection, live_readers, live_matchers,
          runs, trace, pc, ret, changes, last_change, preview_window,
          preview>>

\* the whole state as one record, so that a handler is a composition of the
\* statements it executes
Cur ==
    [qry |-> qry, cmd |-> cmd, query |-> query,
     clear_selection |-> clear_selection,
     reader_control |-> reader_control, matcher_control |-> matcher_control,
     matcher_mode |-> matcher_mode, item_pool |-> item_pool,
     selection |-> selection, live_readers |-> live_readers,
     live_matchers |-> live_matchers, runs |-> runs, trace |-> trace,
     pc |-> pc, ret |-> ret]

Install(s) ==
    /\ qry' = s.qry
    /\ cmd' = s.cmd
    /\ query' = s.query
    /\ clear_selection' = s.clear_selection
    /\ reader_control' = s.reader_control
    /\ matcher_control' = s.matcher_control
    /\ matcher_mode' = s.matcher_mode
    /\ item_pool' = s.item_pool
    /\ selection' = s.selection
    /\ live_readers' = s.live_readers
    /\ live_matchers' = s.live_matchers
    /\ runs' = s.runs
    /\ trace' = s.trace
    /\ pc' = s.pc
    /\ ret' = s.ret
    /\ UNCHANGED <<preview_window, preview>>

Log(s, step) == [s EXCEPT !.trace = Append(@, step)]

\* ------------------------------------------------------------ pure helpers
RECURSIVE IsSubseq(_, _)
\* fuzzy matching: the query's characters occur in the text in order
IsSubseq(q, t) ==
    IF q = <<>> THEN TRUE
    ELSE IF t = <<>> THEN FALSE
    ELSE IF Head(q) = Head(t) THEN IsSubseq(Tail(q), Tail(t))
    ELSE IsSubseq(q, Tail(t))

\* regex matching of a literal pattern: the query occurs contiguously
IsSubstring(q, t) ==
    \E i \in 0..Len(t) :
        /\ i + Len(q) <= Len(t)
        /\ \A j \in 1..Len(q) : t[i + j] = q[j]

\* does the matcher keep an item under a query and a mode
Matches(item, q, mode) ==
    IF mode = ModeRegex THEN IsSubstring(q, item.text) ELSE IsSubseq(q, item.text)

RECURSIVE SelectSeq2(_, _, _)
\* the items of a sequence that match, in order
SelectSeq2(items, q, mode) ==
    IF items = <<>> THEN <<>>
    ELSE IF Matches(Head(items), q, mode)
         THEN <<Head(items)>> \o SelectSeq2(Tail(items), q, mode)
         ELSE SelectSeq2(Tail(items), q, mode)

\* rank of a matched item: shorter text first, ties by reader run and index
Before(a, b) ==
    \/ Len(a.text) < Len(b.text)
    \/ /\ Len(a.text) = Len(b.text)
       /\ \/ a.run < b.run
          \/ a.run = b.run /\ a.idx <= b.idx

RECURSIVE InsertSorted(_, _)
InsertSorted(sorted, x) ==
    IF sorted = <<>> THEN <<x>>
    ELSE IF Before(x, Head(sorted)) /\ x # Head(sorted) THEN <<x>> \o sorted
    ELSE <<Head(sorted)>> \o InsertSorted(Tail(sorted), x)

RECURSIVE MergeSorted(_, _)
MergeSorted(sorted, batch) ==
    IF batch = <<>> THEN sorted
    ELSE MergeSorted(InsertSorted(sorted, Head(batch)), Tail(batch))

SubSeqFrom(s, n) == SubSeq(s, n + 1, Len(s))

\* ------------------------------------------------- collaborators' contracts
\* Reader::run : a fresh worker for the command, nothing produced yet
NewReader(run, c) ==
    [run |-> run, cmd |-> c, produced |-> 0, buf |-> <<>>, processed |-> FALSE]

\* Matcher::run : a fresh worker bound to a query and a mode
NewMatcher(q, mode) ==
    [query |-> q, mode |-> mode, taken |-> FALSE, input |-> <<>>,
     num_processed |-> 0, stopped |-> FALSE]

\* MatcherControl::into_items : the matches among the items scored so far
Matched(m) == SelectSeq2(SubSeq(m.input, 1, m.num_processed), m.query, m.mode)

\* ReaderControl::is_processed through the Option, as at lines 215 and 336
IsProcessed(s) ==
    IF s.reader_control = <<>> THEN TRUE ELSE s.reader_control[1].processed

\* MatcherControl::stopped through the Option, as at lines 187-191
MatcherStopped(s) ==
    IF s.matcher_control = <<>> THEN FALSE ELSE s.matcher_control[1].stopped

\* Selection::get_selected_items with multi-select off: the cursor item
GetSelectedItems(sel) == IF sel = <<>> THEN <<>> ELSE <<sel[1]>>

\* the results Query::handle can leave in its two buffers for an event
QueryEdits(ev, q) ==
    IF ev = "EvActDeleteCharEOF"
    THEN {e \in [query : FilterQueries, cmd_query : CmdQueries] :
            /\ e.cmd_query = q.cmd_query
            /\ \/ e.query = q.query
               \/ /\ Len(e.query) + 1 = Len(q.query)
                  /\ IsSubseq(e.query, q.query)}
    ELSE [query : FilterQueries, cmd_query : CmdQueries]

\* Query::accept_event
QueryAccepts(ev) == ev \in {"EvActDeleteCharEOF", "EvActAddChar"}

\* ------------------------------------------- the statements of the handlers
\* self.reader_control.take().map(|ctrl| ctrl.kill())
KillReader(s) ==
    IF s.reader_control = <<>> THEN s
    ELSE Log([s EXCEPT !.reader_control = <<>>, !.live_readers = @ - 1],
             "kill_reader")

\* self.matcher_control.take().map(|ctrl| ctrl.kill())
KillMatcher(s) ==
    IF s.matcher_control = <<>> THEN s
    ELSE Log([s EXCEPT !.matcher_control = <<>>, !.live_matchers = @ - 1],
             "kill_matcher")

\* self.reader_control = Some(self.reader.run(&cmd)), also as .replace(..)
RunReader(s, c) ==
    Log([s EXCEPT !.reader_control = <<NewReader(s.runs + 1, c)>>,
                  !.runs = @ + 1,
                  !.live_readers = @ + 1],
        "reader_run")

\* self.matcher_control.replace(self.matcher.run(&query, pool, mode))
RunMatcher(s, q) ==
    Log([s EXCEPT !.matcher_control = <<NewMatcher(q, s.matcher_mode)>>,
                  !.live_matchers = @ + 1],
        "matcher_run")

\* self.item_pool.clear()
PoolClear(s) ==
    Log([s EXCEPT !.item_pool = [items |-> <<>>, cursor |-> 0]], "pool_clear")

\* self.item_pool.reset()
PoolReset(s) ==
    Log([s EXCEPT !.item_pool.cursor = 0], "pool_reset")

\* let mut new_items = reader_control.take(); self.item_pool.append(..)
TakeAndAppend(s) ==
    Log([s EXCEPT !.item_pool.items = @ \o s.reader_control[1].buf,
                  !.reader_control[1].buf = <<>>],
        "pool_append")

\* Model::restart_matcher
restart_matcher(s) ==
    LET q == s.qry.query
        s1 == KillMatcher(s)
        s2 == IF ~IsProcessed(s1) THEN TakeAndAppend(s1) ELSE s1
    IN  RunMatcher(s2, q)

\* Absorb with ClearIfNotNull treated like Clear: the Selection is dropped
\* whether or not the batch is empty
Absorb_ClearAlways(s) ==
    LET matched == Matched(s.matcher_control[1])
        s1 == Log([s EXCEPT !.matcher_control = <<>>, !.live_matchers = @ - 1],
                  "into_items")
        s2 == IF s1.clear_selection \in {Clear, ClearIfNotNull}
              THEN [s1 EXCEPT !.selection = <<>>, !.clear_selection = DontClear]
              ELSE s1
    IN  Log([s2 EXCEPT !.selection = MergeSorted(@, matched)], "append_sorted_items")

\* Absorb whose Clear arm drops the Selection but leaves the strategy set
Absorb_KeepClear(s) ==
    LET matched == Matched(s.matcher_control[1])
        s1 == Log([s EXCEPT !.matcher_control = <<>>, !.live_matchers = @ - 1],
                  "into_items")
        s2 == IF s1.clear_selection = Clear
              THEN [s1 EXCEPT !.selection = <<>>]
              ELSE IF s1.clear_selection = ClearIfNotNull /\ Len(matched) > 0
              THEN [s1 EXCEPT !.selection = <<>>, !.clear_selection = DontClear]
              ELSE s1
    IN  Log([s2 EXCEPT !.selection = MergeSorted(@, matched)], "append_sorted_items")

\* the `if matcher_stopped` block of the heartbeat
Absorb(s) ==
    LET matched == Matched(s.matcher_control[1])
        s1 == Log([s EXCEPT !.matcher_control = <<>>, !.live_matchers = @ - 1],
                  "into_items")
        s2 == IF s1.clear_selection = Clear
              THEN [s1 EXCEPT !.selection = <<>>, !.clear_selection = DontClear]
              ELSE IF s1.clear_selection = ClearIfNotNull /\ Len(matched) > 0
              THEN [s1 EXCEPT !.selection = <<>>, !.clear_selection = DontClear]
              ELSE s1
    IN  Log([s2 EXCEPT !.selection = MergeSorted(@, matched)], "append_sorted_items")

\* the reader worker closing its stream while the loop thread is between
\* the is_processed() of line 215 and the one of line 336
FinishBetweenReads(s) ==
    IF /\ s.reader_control # <<>>
       /\ s.reader_control[1].produced = Len(Output(s.reader_control[1].cmd))
    THEN [s EXCEPT !.reader_control[1].processed = TRUE]
    ELSE s

\* Event::EvHeartBeat; fin: the reader finishes between the two reads
OnHeartBeat(s, fin) ==
    LET s1 == IF MatcherStopped(s) THEN Absorb(s) ELSE s
    IN  IF ~IsProcessed(s1) /\ s1.matcher_control = <<>>
        THEN restart_matcher(IF fin THEN FinishBetweenReads(s1) ELSE s1)
        ELSE s1

\* the three statements shared by every return out of the loop
KillBoth(s) == KillMatcher(KillReader(s))

\* OnAccept that reports the loop's local `query` instead of asking Query
OnAccept_LocalQuery(s) ==
    LET s1 == KillBoth(s)
    IN  [s1 EXCEPT !.pc = "returned",
                   !.ret = <<[query |-> s1.query,
                              cmd |-> s1.qry.cmd_query,
                              selected_items |-> GetSelectedItems(s1.selection)]>>]

\* Event::EvActAccept
OnAccept(s) ==
    LET s1 == KillBoth(s)
    IN  [s1 EXCEPT !.pc = "returned",
                   !.ret = <<[query |-> s1.qry.query,
                              cmd |-> s1.qry.cmd_query,
                              selected_items |-> GetSelectedItems(s1.selection)]>>]

\* Event::EvActAbort
OnAbort(s) == [KillBoth(s) EXCEPT !.pc = "returned", !.ret = <<>>]

\* Event::EvActDeleteCharEOF, the branch that returns
OnDeleteCharEOF(s) ==
    IF s.query = <<>>
    THEN [KillBoth(Log(s, "send_null_key")) EXCEPT !.pc = "returned", !.ret = <<>>]
    ELSE s

\* OnRotateMode that switches regex mode on and never back
OnRotateMode_AlwaysRegex(s) ==
    LET s1 == [s EXCEPT !.matcher_mode = ModeRegex]
        s2 == KillMatcher(s1)
        s3 == [s2 EXCEPT !.clear_selection = Clear]
    IN  restart_matcher(PoolReset(s3))

\* Event::EvActRotateMode
OnRotateMode(s) ==
    LET s1 == [s EXCEPT !.matcher_mode =
                   IF s.matcher_mode = <<>> THEN ModeRegex ELSE ModeDefault]
        s2 == KillMatcher(s1)
        s3 == [s2 EXCEPT !.clear_selection = Clear]
    IN  restart_matcher(PoolReset(s3))

\* CommandChanged that replaces the reader handle without killing the old one
CommandChanged_NoReaderKill(s, new_cmd) ==
    LET s1 == [s EXCEPT !.cmd = new_cmd]
        s2 == KillMatcher(s1)
        s3 == [PoolClear(s2) EXCEPT !.clear_selection = ClearIfNotNull]
    IN  restart_matcher(RunReader(s3, s3.cmd))

\* CommandChanged that clears the pool only after launching the new reader
CommandChanged_ClearAfterRun(s, new_cmd) ==
    LET s1 == [s EXCEPT !.cmd = new_cmd]
        s2 == KillMatcher(KillReader(s1))
        s3 == [s2 EXCEPT !.clear_selection = ClearIfNotNull]
    IN  restart_matcher(PoolClear(RunReader(s3, s3.cmd)))

\* CommandChanged that leaves the clear strategy at DontClear
CommandChanged_DontClear(s, new_cmd) ==
    LET s1 == [s EXCEPT !.cmd = new_cmd]
        s2 == KillMatcher(KillReader(s1))
        s3 == [PoolClear(s2) EXCEPT !.clear_selection = DontClear]
    IN  restart_matcher(RunReader(s3, s3.cmd))

\* the `if new_cmd != cmd` branch of the query dispatch
CommandChanged(s, new_cmd) ==
    LET s1 == [s EXCEPT !.cmd = new_cmd]
        s2 == KillMatcher(KillReader(s1))
        s3 == [PoolClear(s2) EXCEPT !.clear_selection = ClearIfNotNull]
    IN  restart_matcher(RunReader(s3, s3.cmd))

\* QueryChanged that leaves the clear strategy as it was
QueryChanged_NoClear(s, new_query) ==
    LET s1 == [s EXCEPT !.query = new_query]
        s2 == KillMatcher(s1)
    IN  restart_matcher(PoolReset(s2))

\* QueryChanged that clears the pool where the code only resets its cursor
QueryChanged_ClearsPool(s, new_query) ==
    LET s1 == [s EXCEPT !.query = new_query]
        s2 == KillMatcher(s1)
        s3 == [s2 EXCEPT !.clear_selection = Clear]
    IN  restart_matcher(PoolClear(s3))

\* the `else if query != new_query` branch of the query dispatch
QueryChanged(s, new_query) ==
    LET s1 == [s EXCEPT !.query = new_query]
        s2 == KillMatcher(s1)
        s3 == [s2 EXCEPT !.clear_selection = Clear]
    IN  restart_matcher(PoolReset(s3))

\* if self.query.accept_event(ev) { self.query.handle(ev, &arg); ... }
DispatchQuery(s, ev, edit) ==
    IF ~QueryAccepts(ev) THEN s
    ELSE LET s1 == Log([s EXCEPT !.qry = edit], "query_handle")
             new_query == s1.qry.query
             new_cmd == GetCmd(s1.qry.cmd_query)
         IN  IF new_cmd # s1.cmd THEN CommandChanged(s1, new_cmd)
             ELSE IF s1.query # new_query THEN QueryChanged(s1, new_query)
             ELSE s1

\* the match on the event, lines 184-272
Match(s, ev, fin) ==
    CASE ev = "EvHeartBeat" -> OnHeartBeat(s, fin)
      [] ev = "EvActAccept" -> OnAccept(s)
      [] ev = "EvActAbort" -> OnAbort(s)
      [] ev = "EvActDeleteCharEOF" -> OnDeleteCharEOF(s)
      [] ev = "EvActRotateMode" -> OnRotateMode(s)
      [] OTHER -> s

\* one iteration of the loop: match, then dispatch and draw unless returned
Iteration(s, ev, edit, fin) ==
    LET s0 == [s EXCEPT !.trace = <<ev>>]
        s1 == Match(s0, ev, fin)
    IN  IF s1.pc = "returned" THEN s1
        ELSE Log(DispatchQuery(Log(s1, "dispatch"), ev, edit), "draw")

----------------------------------------------------------------------------
\* The preview-window option: Model::parse_options and Model::parse_preview.
\* Text is a sequence of one-character strings.

Up == "Up"
Down == "Down"
Left == "Left"
Right == "Right"
Direction == {Up, Down, Left, Right}

Digits == <<"0", "1", "2", "3", "4", "5", "6", "7", "8", "9">>
LowerCase == <<"a", "b", "c", "d", "e", "f", "g", "h", "i", "j", "k", "l", "m",
               "n", "o", "p", "q", "r", "s", "t", "u", "v", "w", "x", "y", "z">>
UpperCase == <<"A", "B", "C", "D", "E", "F", "G", "H", "I", "J", "K", "L", "M",
               "N", "O", "P", "Q", "R", "S", "T", "U", "V", "W", "X", "Y", "Z">>

\* char::is_digit(10)
IsDigit(c) == \E i \in 1..Len(Digits) : Digits[i] = c

DigitValue(c) == (CHOOSE i \in 1..Len(Digits) : Digits[i] = c) - 1

ToUpperChar(c) ==
    IF \E i \in 1..Len(LowerCase) : LowerCase[i] = c
    THEN UpperCase[CHOOSE i \in 1..Len(LowerCase) : LowerCase[i] = c]
    ELSE c

\* str::to_uppercase
ToUpperCase(str) == [i \in 1..Len(str) |-> ToUpperChar(str[i])]

\* str::split(sep): the pieces between the separators, empty pieces kept
RECURSIVE Split(_, _)
Split(str, sep) ==
    IF \A i \in 1..Len(str) : str[i] # sep
    THEN <<str>>
    ELSE LET i == CHOOSE k \in 1..Len(str) :
                      /\ str[k] = sep
                      /\ \A j \in 1..(k - 1) : str[j] # sep
         IN  <<SubSeq(str, 1, i - 1)>> \o Split(SubSeq(str, i + 1, Len(str)), sep)

\* the decimal value of a run of digits
RECURSIVE ParseNumber(_)
ParseNumber(digits) ==
    IF digits = <<>> THEN 0
    ELSE ParseNumber(SubSeq(digits, 1, Len(digits) - 1)) * 10
            + DigitValue(digits[Len(digits)])

Percent(n) == [unit |-> "Percent", n |-> n]
Fixed(n) == [unit |-> "Fixed", n |-> n]

\* util::margin_string_to_size: a number followed by % is a percentage,
\* a bare number a count of cells
margin_string_to_size(margin) ==
    IF margin[Len(margin)] = "%"
    THEN Percent(ParseNumber(SubSeq(margin, 1, Len(margin) - 1)))
    ELSE Fixed(ParseNumber(margin))

\* the values of the four locals before the loop of parse_preview
PreviewDefaults ==
    [direction |-> Right, size |-> Percent(50), wrap |-> FALSE, shown |-> TRUE]

\* the body of the loop of parse_preview, for one piece of the option text
ParseOption(acc, option) ==
    IF option = <<>> THEN acc
    ELSE IF IsDigit(option[1])
         THEN [acc EXCEPT !.size = margin_string_to_size(option)]
    ELSE LET upper == ToUpperCase(option)
         IN  IF upper = <<"U", "P">> THEN [acc EXCEPT !.direction = Up]
             ELSE IF upper = <<"D", "O", "W", "N">> THEN [acc EXCEPT !.direction = Down]
             ELSE IF upper = <<"L", "E", "F", "T">> THEN [acc EXCEPT !.direction = Left]
             ELSE IF upper = <<"R", "I", "G", "H", "T">> THEN [acc EXCEPT !.direction = Right]
             ELSE IF upper = <<"H", "I", "D", "D", "E", "N">> THEN [acc EXCEPT !.shown = FALSE]
             ELSE IF upper = <<"W", "R", "A", "P">> THEN [acc EXCEPT !.wrap = TRUE]
             ELSE acc

\* the loop of parse_preview over the pieces, first to last
RECURSIVE ParseOptionsLoop(_, _)
ParseOptionsLoop(acc, options) ==
    IF options = <<>> THEN acc
    ELSE ParseOptionsLoop(ParseOption(acc, Head(options)), Tail(options))

\* parse_preview that leaves its loop at the first empty piece
parse_preview_StopsAtEmpty(preview_option) ==
    LET options == Split(preview_option, ":")
        stop == IF \E k \in 1..Len(options) : options[k] = <<>>
                THEN CHOOSE k \in 1..Len(options) :
                         /\ options[k] = <<>>
                         /\ \A j \in 1..(k - 1) : options[j] # <<>>
                ELSE Len(options) + 1
    IN  ParseOptionsLoop(PreviewDefaults, SubSeq(options, 1, stop - 1))

\* Model::parse_preview
parse_preview(preview_option) ==
    ParseOptionsLoop(PreviewDefaults, Split(preview_option, ":"))

\* the option text the defaulting layer supplies: right:50%
DefaultPreviewWindow ==
    <<"r", "i", "g", "h", "t", ":", "5", "0", "%">>

\* the pieces the option texts are assembled from
PreviewTokens ==
    { <<"U", "P">>, <<"D", "O", "W", "N">>, <<"l", "e", "f", "t">>,
      <<"R", "I", "G", "H", "T">>, <<"H", "I", "D", "D", "E", "N">>,
      <<"W", "R", "A", "P">>, <<"2", "0", "%">>, <<"7", "0", "%">>,
      <<>>, <<"f", "o", "o">> }


\* ---------------------------------------------------------------- actions
\* Model::new : no worker yet, no mode, an empty pool
InitModel ==
    /\ qry \in [query : FilterQueries, cmd_query : CmdQueries]
    /\ cmd = <<>>
    /\ query = <<>>
    /\ clear_selection = DontClear
    /\ reader_control = <<>>
    /\ matcher_control = <<>>
    /\ matcher_mode = ModeDefault
    /\ item_pool = [items |-> <<>>, cursor |-> 0]
    /\ selection = <<>>
    /\ live_readers = 0
    /\ live_matchers = 0
    /\ runs = 0
    /\ trace = <<>>
    /\ pc = "new"
    /\ ret = <<>>
    /\ changes = 0
    /\ last_change = "none"

\* the Model after construction with the default preview-window option
Init ==
    /\ InitModel
    /\ preview_window = DefaultPreviewWindow
    /\ preview = <<parse_preview(preview_window)>>

\* everything but the preview-window option and its parsed value
modelvars == <<qry, cmd, query, clear_selection, reader_control,
               matcher_control, matcher_mode, item_pool, selection,
               live_readers, live_matchers, runs, trace, pc, ret, changes,
               last_change>>

\* Model::new before parse_options ran, with a one-piece option text
PreviewInit ==
    /\ InitModel
    /\ qry = [query |-> <<>>, cmd_query |-> ""]
    /\ preview_window \in PreviewTokens
    /\ preview = <<>>

\* the caller writes one more colon-separated piece into the option text
AppendOption(tok) ==
    /\ preview = <<>>
    /\ Len(Split(preview_window, ":")) < MaxTokens
    /\ preview_window' = preview_window \o <<":">> \o tok
    /\ UNCHANGED <<modelvars, preview>>

\* Model::parse_options, lines 121-128
ParseOptions ==
    /\ preview = <<>>
    /\ preview' = <<parse_preview(preview_window)>>
    /\ UNCHANGED <<modelvars, preview_window>>

PreviewNext ==
    \/ \E tok \in PreviewTokens : AppendOption(tok)
    \/ ParseOptions

PreviewSpec == PreviewInit /\ [][PreviewNext]_vars

\* the prologue of Model::start, lines 176-180
Start ==
    /\ pc = "new"
    /\ Install(RunReader([Cur EXCEPT !.cmd = GetCmd(qry.cmd_query),
                                     !.query = qry.query,
                                     !.clear_selection = DontClear,
                                     !.trace = <<"start">>,
                                     !.pc = "loop"],
                         GetCmd(qry.cmd_query)))
    /\ UNCHANGED <<changes, last_change>>

\* the periodic heartbeat
HeartBeat ==
    /\ pc = "loop"
    /\ \E fin \in BOOLEAN : Install(Iteration(Cur, "EvHeartBeat", qry, fin))
    /\ UNCHANGED <<changes, last_change>>

Accept ==
    /\ pc = "loop"
    /\ Install(Iteration(Cur, "EvActAccept", qry, FALSE))
    /\ UNCHANGED <<changes, last_change>>

Abort ==
    /\ pc = "loop"
    /\ Install(Iteration(Cur, "EvActAbort", qry, FALSE))
    /\ UNCHANGED <<changes, last_change>>

\* toggle-preview and every other event no branch and no Query key matches
OtherEvent ==
    /\ pc = "loop"
    /\ Install(Iteration(Cur, "EvActTogglePreview", qry, FALSE))
    /\ UNCHANGED <<changes, last_change>>

RotateMode ==
    /\ pc = "loop"
    /\ changes < MaxChanges
    /\ Install(Iteration(Cur, "EvActRotateMode", qry, FALSE))
    /\ changes' = changes + 1
    /\ last_change' = "mode"

\* what an edit of the Query's buffers changed
ChangeKind(old, new) ==
    IF new.cmd_query # old.cmd_query
    THEN (IF new.query # old.query THEN "both" ELSE "command")
    ELSE "filter"

\* an iteration for an event Query accepts; the edit is what Query::handle
\* leaves in its buffers if the event reaches it
QueryEvent(ev, edit) ==
    LET s == Iteration(Cur, ev, edit, FALSE)
    IN  /\ Install(s)
        /\ IF s.qry = qry
           THEN UNCHANGED <<changes, last_change>>
           ELSE /\ changes < MaxChanges
                /\ changes' = changes + 1
                /\ last_change' = ChangeKind(qry, s.qry)

\* delete-char: returns on an empty query, otherwise Query handles it
DeleteCharEOF ==
    /\ pc = "loop"
    /\ \E edit \in QueryEdits("EvActDeleteCharEOF", qry) :
          QueryEvent("EvActDeleteCharEOF", edit)

\* a key that Query handles
QueryKey ==
    /\ pc = "loop"
    /\ \E edit \in QueryEdits("EvActAddChar", qry) :
          QueryEvent("EvActAddChar", edit)

\* rx.recv() fails: the while-let ends and start returns None, lines 324-326
ChannelClosed ==
    /\ pc = "loop"
    /\ Install([Cur EXCEPT !.trace = <<"recv_err">>, !.pc = "returned", !.ret = <<>>])
    /\ UNCHANGED <<changes, last_change>>

\* the reader worker reads one more line of the subprocess's output
ReaderProduce ==
    /\ reader_control # <<>>
    /\ LET r == reader_control[1]
       IN  /\ ~r.processed
           /\ r.produced < Len(Output(r.cmd))
           /\ reader_control' =
                <<[r EXCEPT !.produced = @ + 1,
                            !.buf = Append(@, [run |-> r.run, idx |-> r.produced + 1,
                                               text |-> Output(r.cmd)[r.produced + 1]])]>>
    /\ UNCHANGED <<qry, cmd, query, clear_selection, matcher_control, matcher_mode,
                   item_pool, selection, live_readers, live_matchers, runs, trace,
                   pc, ret, changes, last_change,
                   preview_window, preview>>

\* the subprocess closes its output stream
ReaderFinish ==
    /\ reader_control # <<>>
    /\ LET r == reader_control[1]
       IN  /\ ~r.processed
           /\ r.produced = Len(Output(r.cmd))
           /\ reader_control' = <<[r EXCEPT !.processed = TRUE]>>
    /\ UNCHANGED <<qry, cmd, query, clear_selection, matcher_control, matcher_mode,
                   item_pool, selection, live_readers, live_matchers, runs, trace,
                   pc, ret, changes, last_change,
                   preview_window, preview>>

\* the matcher worker takes the unseen tail of the pool
MatcherTake ==
    /\ matcher_control # <<>>
    /\ LET m == matcher_control[1]
       IN  /\ ~m.taken
           /\ matcher_control' =
                <<[m EXCEPT !.taken = TRUE,
                            !.input = SubSeqFrom(item_pool.items, item_pool.cursor)]>>
           /\ item_pool' = [item_pool EXCEPT !.cursor = Len(item_pool.items)]
    /\ UNCHANGED <<qry, cmd, query, clear_selection, reader_control, matcher_mode,
                   selection, live_readers, live_matchers, runs, trace, pc, ret,
                   changes, last_change,
                   preview_window, preview>>

\* the matcher worker scores one more item
MatcherScan ==
    /\ matcher_control # <<>>
    /\ LET m == matcher_control[1]
       IN  /\ m.taken
           /\ m.num_processed < Len(m.input)
           /\ matcher_control' = <<[m EXCEPT !.num_processed = @ + 1]>>
    /\ UNCHANGED <<qry, cmd, query, clear_selection, reader_control, matcher_mode,
                   item_pool, selection, live_readers, live_matchers, runs, trace,
                   pc, ret, changes, last_change,
                   preview_window, preview>>

\* the matcher worker has scored everything it took
MatcherStop ==
    /\ matcher_control # <<>>
    /\ LET m == matcher_control[1]
       IN  /\ m.taken
           /\ ~m.stopped
           /\ m.num_processed = Len(m.input)
           /\ matcher_control' = <<[m EXCEPT !.stopped = TRUE]>>
    /\ UNCHANGED <<qry, cmd, query, clear_selection, reader_control, matcher_mode,
                   item_pool, selection, live_readers, live_matchers, runs, trace,
                   pc, ret, changes, last_change,
                   preview_window, preview>>

Next ==
    \/ Start
    \/ HeartBeat
    \/ Accept
    \/ Abort
    \/ OtherEvent
    \/ RotateMode
    \/ DeleteCharEOF
    \/ QueryKey
    \/ ChannelClosed
    \/ ReaderProduce
    \/ ReaderFinish
    \/ MatcherTake
    \/ MatcherScan
    \/ MatcherStop

Spec == Init /\ [][Next]_vars


\* ------------------------------------------------------- reading the trace
InTrace(tr, step) == \E i \in 1..Len(tr) : tr[i] = step

Count(tr, step) == Cardinality({i \in 1..Len(tr) : tr[i] = step})

\* the position of the first occurrence of a step, 0 when it does not occur
Pos(tr, step) ==
    IF InTrace(tr, step)
    THEN CHOOSE i \in 1..Len(tr) : tr[i] = step /\ \A j \in 1..(i - 1) : tr[j] # step
    ELSE 0

\* ---------------------------------------------------------------- claims
\* C1: after every iteration at most one reader worker and at most one
\* matcher worker is started and not yet killed or drained, and each such
\* worker is the one whose handle sits in reader_control / matcher_control
\* (no handle was overwritten while its worker was live).
C1_AtMostOneLiveWorker ==
    /\ live_readers <= 1
    /\ live_matchers <= 1
    /\ live_readers = Len(reader_control)
    /\ live_matchers = Len(matcher_control)

\* a command change replaced both handles
C1_Witness ==
    /\ pc = "loop"
    /\ runs >= 2
    /\ InTrace(trace, "kill_reader")
    /\ InTrace(trace, "kill_matcher")
    /\ live_readers = 1
    /\ live_matchers = 1

\* C5: when the event channel closes, start returns None and no reader or
\* matcher worker is left un-killed.
C5_ChannelClosedKillsWorkers ==
    (pc = "returned" /\ trace = <<"recv_err">>) =>
        /\ ret = <<>>
        /\ reader_control = <<>>
        /\ matcher_control = <<>>
        /\ live_readers = 0
        /\ live_matchers = 0

\* C6: an Accept or an Abort returns in the same iteration; each installed
\* handle is killed exactly once and both slots are empty; Accept returns
\* the Query's filter query and command query, Abort returns None; nothing
\* is dispatched to the sub-components and nothing is drawn.
C6_AcceptAbortTerminate ==
    [][(/\ pc = "loop"
        /\ trace' # <<>>
        /\ trace'[1] \in {"EvActAccept", "EvActAbort"}
        /\ Accept \/ Abort) =>
          /\ pc' = "returned"
          /\ reader_control' = <<>>
          /\ matcher_control' = <<>>
          /\ Count(trace', "kill_reader") = Len(reader_control)
          /\ Count(trace', "kill_matcher") = Len(matcher_control)
          /\ live_readers' = 0
          /\ live_matchers' = 0
          /\ ~InTrace(trace', "dispatch")
          /\ ~InTrace(trace', "query_handle")
          /\ ~InTrace(trace', "draw")
          /\ IF trace'[1] = "EvActAccept"
             THEN /\ Len(ret') = 1
                  /\ ret'[1].query = qry.query
                  /\ ret'[1].cmd = qry.cmd_query
             ELSE ret' = <<>>]_vars

\* an Accept returned a selected item with both workers killed
C6_Witness ==
    /\ pc = "returned"
    /\ trace[1] = "EvActAccept"
    /\ InTrace(trace, "kill_reader")
    /\ InTrace(trace, "kill_matcher")
    /\ ret # <<>>
    /\ ret[1].selected_items # <<>>
    /\ query # qry.query

\* C7: a delete-char-EOF event returns None if and only if the filter query
\* Query holds is empty: then a null key is injected and both workers are
\* killed; otherwise the loop goes on and the event reaches Query.
C7_DeleteCharEOFAbortsIffEmpty ==
    [][(pc = "loop" /\ trace' # <<>> /\ trace'[1] = "EvActDeleteCharEOF"
        /\ DeleteCharEOF) =>
          IF qry.query = <<>>
          THEN /\ pc' = "returned"
               /\ ret' = <<>>
               /\ InTrace(trace', "send_null_key")
               /\ reader_control' = <<>>
               /\ matcher_control' = <<>>
          ELSE /\ pc' = "loop"
               /\ InTrace(trace', "query_handle")]_vars

\* C9: on a change of the reader command the iteration kills the old reader,
\* kills the old matcher, clears the pool, launches the new reader under the
\* new command and then launches the new matcher, in this order; and the
\* pool never holds an item of a reader other than the installed one.
C9_CommandChangeOrder ==
    [][/\ (GetCmd(qry'.cmd_query) # GetCmd(qry.cmd_query) /\ QueryKey) =>
            /\ Count(trace', "kill_reader") = Len(reader_control)
            /\ Count(trace', "kill_matcher") = Len(matcher_control)
            /\ Count(trace', "pool_clear") = 1
            /\ Count(trace', "reader_run") = 1
            /\ Count(trace', "matcher_run") = 1
            /\ InTrace(trace', "kill_matcher") =>
                  Pos(trace', "kill_reader") < Pos(trace', "kill_matcher")
            /\ Pos(trace', "kill_reader") < Pos(trace', "pool_clear")
            /\ Pos(trace', "kill_matcher") < Pos(trace', "pool_clear")
            /\ Pos(trace', "pool_clear") < Pos(trace', "reader_run")
            /\ Pos(trace', "reader_run") < Pos(trace', "matcher_run")
            /\ reader_control'[1].cmd = GetCmd(qry'.cmd_query)
            /\ reader_control'[1].run # reader_control[1].run
            /\ item_pool'.items = <<>>
       /\ reader_control' # <<>> =>
            \A i \in 1..Len(item_pool'.items) :
                item_pool'.items[i].run = reader_control'[1].run]_vars

\* the command changed while the pool held the old reader's items and a
\* matcher was installed
C9_Witness ==
    /\ pc = "loop"
    /\ trace[1] = "EvActAddChar"
    /\ InTrace(trace, "kill_matcher")
    /\ InTrace(trace, "pool_clear")
    /\ selection # <<>>
    /\ runs = 2
    /\ item_pool.items = <<>>

\* C10 as stated: a heartbeat that consumes a stopped matcher's output
\* leaves clear_strategy at DontClear, whatever was pending.
C10_AbsorbRevertsToDontClear ==
    [][(MatcherStopped(Cur) /\ HeartBeat) => clear_selection' = DontClear]_vars

\* C10 amended: a heartbeat that consumes a stopped matcher's output leaves
\* clear_strategy at DontClear, except that a pending ClearIfNotNull stays
\* pending when the batch is empty.
C10_AbsorbRevertsUnlessEmptyBatch ==
    [][(MatcherStopped(Cur) /\ HeartBeat) =>
          clear_selection' =
              IF clear_selection = ClearIfNotNull /\ Matched(matcher_control[1]) = <<>>
              THEN ClearIfNotNull
              ELSE DontClear]_vars

\* a heartbeat absorbed an empty batch under ClearIfNotNull
C10_Witness ==
    /\ InTrace(trace, "EvHeartBeat")
    /\ InTrace(trace, "into_items")
    /\ clear_selection = ClearIfNotNull
    /\ selection # <<>>

\* C3 as stated: after a change to a command that yields no items, once the
\* new reader has finished and the restarted matcher has been absorbed, the
\* Selection is empty.
C3_SelectionEmptyAfterEmptyCommand ==
    (/\ pc = "loop"
     /\ last_change \in {"command", "both"}
     /\ Output(cmd) = <<>>
     /\ IsProcessed(Cur)
     /\ matcher_control = <<>>) => selection = <<>>

\* C3 amended: after a change to a command that yields no items, while the
\* ClearIfNotNull that change set is still pending, every heartbeat that
\* absorbs the restarted matcher leaves the Selection as it was (the
\* previous command's matches stay) and leaves ClearIfNotNull pending.
C3_SelectionKeptAfterEmptyCommand ==
    [][(/\ MatcherStopped(Cur)
        /\ clear_selection = ClearIfNotNull
        /\ Output(cmd) = <<>>
        /\ HeartBeat) =>
          /\ selection' = selection
          /\ clear_selection' = ClearIfNotNull]_vars

\* the new reader finished with nothing, the matcher was absorbed, and the
\* previous command's matches are still in the Selection
C3_Witness ==
    /\ pc = "loop"
    /\ last_change = "command"
    /\ Output(cmd) = <<>>
    /\ IsProcessed(Cur)
    /\ matcher_control = <<>>
    /\ trace[1] = "EvHeartBeat"
    /\ InTrace(trace, "into_items")
    /\ clear_selection = ClearIfNotNull
    /\ selection # <<>>
    /\ \A i \in 1..Len(selection) : selection[i].run < runs

\* C4: every item an Accept returns matches the filter query Query holds
\* under the current matcher mode.
C4_AcceptedItemsMatchFinalQuery ==
    (pc = "returned" /\ ret # <<>>) =>
        \A i \in 1..Len(ret[1].selected_items) :
            Matches(ret[1].selected_items[i], qry.query, matcher_mode)

\* C8: an event that changes the filter query and not the reader command
\* leaves the reader handle installed and un-killed and the pool's items as
\* they were, resets the pool cursor, kills and restarts the matcher and
\* sets clear_strategy to Clear.
C8_FilterOnlyChange ==
    [][(/\ qry'.query # qry.query
        /\ GetCmd(qry'.cmd_query) = GetCmd(qry.cmd_query)
        /\ QueryKey \/ DeleteCharEOF) =>
          /\ ~InTrace(trace', "kill_reader")
          /\ ~InTrace(trace', "reader_run")
          /\ Len(reader_control') = 1
          /\ reader_control'[1].run = reader_control[1].run
          /\ item_pool'.items = item_pool.items
          /\ InTrace(trace', "pool_reset")
          /\ item_pool'.cursor = 0
          /\ Count(trace', "kill_matcher") = Len(matcher_control)
          /\ Count(trace', "matcher_run") = 1
          /\ matcher_control' = <<NewMatcher(qry'.query, matcher_mode)>>
          /\ clear_selection' = Clear]_vars

\* the Selection holds exactly the pool's matches of the query Query holds,
\* under the current mode
SelectionCurrent ==
    selection = MergeSorted(<<>>, SelectSeq2(item_pool.items, qry.query, matcher_mode))

\* no worker has anything left to do and a heartbeat changes nothing: the
\* reader has finished and the last matcher has been absorbed
Quiescent ==
    /\ pc = "loop"
    /\ IsProcessed(Cur)
    /\ matcher_control = <<>>

\* C2: when the last user edit changed the filter query (and only it), then once the
\* reader has finished and the heartbeats have absorbed the last matcher,
\* the Selection holds exactly the matches of the filter query Query holds
\* and no match of an earlier query.
C2_FilterChangeEventuallyShown ==
    (Quiescent /\ last_change = "filter") => SelectionCurrent

\* C11 as stated: an iteration whose event does not itself set
\* clear_strategy (heartbeat, accept, abort, any other key) starts with
\* clear_strategy at DontClear.
C11_DontClearAtIterationStart ==
    [][(/\ pc = "loop"
        /\ trace' # <<>>
        /\ trace'[1] \in {"EvHeartBeat", "EvActAccept", "EvActAbort",
                          "EvActTogglePreview"}
        /\ HeartBeat \/ Accept \/ Abort \/ OtherEvent) =>
          clear_selection = DontClear]_vars

\* C11 amended: between iterations clear_strategy is DontClear until the
\* first rotate-mode or query/command change; afterwards Clear is pending
\* only while the matcher restarted by that change is still installed, and
\* ClearIfNotNull only after a command change and until a non-empty batch
\* is absorbed (no item of the running reader is in the Selection yet).
C11_PendingOnlyUntilAbsorbed ==
    pc = "loop" =>
        /\ changes = 0 => clear_selection = DontClear
        /\ clear_selection = Clear => matcher_control # <<>>
        /\ clear_selection = ClearIfNotNull =>
              /\ runs >= 2
              /\ \A i \in 1..Len(selection) : selection[i].run < runs

\* a heartbeat found the matcher still running: the next iteration starts
\* with Clear pending
C11_Witness ==
    /\ pc = "loop"
    /\ trace[1] = "EvHeartBeat"
    /\ clear_selection = Clear
    /\ matcher_control # <<>>
    /\ selection # <<>>

\* C12: a heartbeat that absorbs a stopped matcher's batch B into a
\* Selection S leaves S merged with B under DontClear, exactly B under
\* Clear, and under ClearIfNotNull exactly B when B is non-empty and S when
\* B is empty; the matcher handle is dropped unless the same heartbeat
\* starts a new matcher.
C12_AbsorbAppliesStrategy ==
    [][(MatcherStopped(Cur) /\ HeartBeat) =>
          LET B == Matched(matcher_control[1])
              S == selection
          IN  /\ selection' =
                    IF clear_selection = DontClear THEN MergeSorted(S, B)
                    ELSE IF clear_selection = Clear THEN MergeSorted(<<>>, B)
                    ELSE IF B # <<>> THEN MergeSorted(<<>>, B)
                    ELSE S
              /\ InTrace(trace', "into_items")
              /\ \/ matcher_control' = <<>>
                 \/ /\ InTrace(trace', "matcher_run")
                    /\ Pos(trace', "into_items") < Pos(trace', "matcher_run")
                    /\ matcher_control' = <<NewMatcher(qry.query, matcher_mode)>>]_vars

\* a heartbeat merged a second batch into a non-empty Selection and
\* started the next matcher
C12_Witness ==
    /\ pc = "loop"
    /\ trace[1] = "EvHeartBeat"
    /\ InTrace(trace, "into_items")
    /\ InTrace(trace, "matcher_run")
    /\ Len(selection) >= 2
    /\ clear_selection = DontClear

\* C13: once the reader has finished and a heartbeat has found no matcher
\* left to absorb or to start, every item the reader produced is in the pool
\* and none is left in the reader's staging buffer.
C13_EveryItemReachesPool ==
    (/\ pc = "loop"
     /\ trace[1] = "EvHeartBeat"
     /\ IsProcessed(Cur)
     /\ matcher_control = <<>>) =>
        /\ reader_control[1].buf = <<>>
        /\ Len(item_pool.items) = reader_control[1].produced

IsPrefix(a, b) == Len(a) <= Len(b) /\ SubSeq(b, 1, Len(a)) = a

\* C14: the pool's items only grow at the end, except on a change of the
\* reader command, which is the only step that clears the pool; rotate-mode
\* and a filter-query change reset the cursor and keep every item.
C14_PoolOnlyGrowsUntilClear ==
    [][/\ item_pool'.items # item_pool.items =>
            \/ IsPrefix(item_pool.items, item_pool'.items)
            \/ /\ GetCmd(qry'.cmd_query) # GetCmd(qry.cmd_query)
               /\ InTrace(trace', "pool_clear")
       /\ (trace' # trace /\ InTrace(trace', "pool_clear")) =>
            /\ GetCmd(qry'.cmd_query) # GetCmd(qry.cmd_query)
            /\ trace'[1] = "EvActAddChar"
       /\ (trace' # trace /\ InTrace(trace', "pool_reset")) =>
            /\ IsPrefix(item_pool.items, item_pool'.items)
            /\ ~InTrace(trace', "pool_clear")]_vars

\* a filter-query change reset the cursor of a pool that kept its items and
\* took the reader's new ones
C14_Witness ==
    /\ pc = "loop"
    /\ trace[1] = "EvActAddChar"
    /\ InTrace(trace, "pool_reset")
    /\ InTrace(trace, "pool_append")
    /\ Len(item_pool.items) >= 2
    /\ item_pool.cursor = 0

\* C15: a rotate-mode event toggles matcher_mode, so that a second rotate
\* returns it to the value before the first; each rotate kills the
\* installed matcher, sets clear_strategy to Clear, resets the pool cursor
\* before the launch and leaves exactly one new matcher bound to the new
\* mode.
C15_RotateTwiceReturns ==
    [][(/\ pc = "loop"
        /\ trace' # <<>>
        /\ trace'[1] = "EvActRotateMode"
        /\ RotateMode) =>
          /\ matcher_mode' # matcher_mode
          /\ matcher_mode' \in {ModeDefault, ModeRegex}
          /\ Match(Cur', "EvActRotateMode", FALSE).matcher_mode = matcher_mode
          /\ Count(trace', "kill_matcher") = Len(matcher_control)
          /\ clear_selection' = Clear
          /\ Count(trace', "pool_reset") = 1
          /\ Count(trace', "matcher_run") = 1
          /\ Pos(trace', "kill_matcher") < Pos(trace', "pool_reset")
          /\ Pos(trace', "pool_reset") < Pos(trace', "matcher_run")
          /\ live_matchers' = 1
          /\ matcher_control' = <<NewMatcher(qry.query, matcher_mode')>>]_vars

\* two rotations in a row brought the mode back to the default
C15_Witness ==
    /\ pc = "loop"
    /\ trace[1] = "EvActRotateMode"
    /\ InTrace(trace, "kill_matcher")
    /\ changes = 2
    /\ last_change = "mode"
    /\ matcher_mode = ModeDefault

\* a draw that takes the number of matches for the total
DrawStatus_TotalIsMatched(s) ==
    LET total == Len(s.selection)
    IN  [total |-> total,
         processed |-> IF s.matcher_control # <<>>
                       THEN s.matcher_control[1].num_processed
                       ELSE total,
         matcher_running |-> s.matcher_control # <<>>]

\* what Model::draw hands to Status::draw: the pool length, the matcher's
\* progress counter (the pool length when no matcher is installed) and
\* whether a matcher is installed
DrawStatus(s) ==
    LET total == Len(s.item_pool.items)
    IN  [total |-> total,
         processed |-> IF s.matcher_control # <<>>
                       THEN s.matcher_control[1].num_processed
                       ELSE total,
         matcher_running |-> s.matcher_control # <<>>]

\* Status::draw prints a percentage when the matcher runs and has scanned
\* more than a twentieth of the pool
ShowsPercent(st) == st.matcher_running /\ st.processed * 20 > st.total

\* C17: after every completed iteration the installed matcher was launched
\* with the filter query that Query holds and with the current matcher_mode.
C17_MatcherBoundToCurrentQuery ==
    (pc = "loop" /\ matcher_control # <<>>) =>
        /\ matcher_control[1].query = qry.query
        /\ matcher_control[1].mode = matcher_mode

NoDuplicates(seq) ==
    \A i, j \in 1..Len(seq) : i # j => seq[i] # seq[j]

\* C18: all matches in the Selection originate from a single reader run.
C18_SelectionFromOneRun ==
    \A i, j \in 1..Len(selection) : selection[i].run = selection[j].run

\* the Selection was replaced by matches of the reader started by a command
\* change
C18_Witness ==
    /\ pc = "loop"
    /\ runs >= 3
    /\ selection # <<>>
    /\ selection[1].run = runs

\* C19: the Selection never holds the same pool item twice; a matcher
\* killed before its batch is absorbed is followed, before the next launch,
\* by a cursor reset or a pool clear with Clear or ClearIfNotNull pending;
\* an installed matcher holds only items behind the cursor; and once the
\* last matcher is absorbed the cursor stands at the end of the pool, so no
\* pool item was skipped.
C19_NoItemTwiceNoneSkipped ==
    [][/\ NoDuplicates(selection')
       /\ matcher_control' # <<>> =>
            /\ Len(matcher_control'[1].input) <= item_pool'.cursor
            /\ item_pool'.cursor <= Len(item_pool'.items)
       /\ (pc' = "loop" /\ matcher_control' = <<>>) =>
            item_pool'.cursor = Len(item_pool'.items)
       /\ (/\ pc' = "loop"
           /\ trace' # trace
           /\ InTrace(trace', "kill_matcher")
           /\ ~InTrace(trace', "into_items")
           /\ matcher_control # <<>>) =>
            /\ clear_selection' \in {Clear, ClearIfNotNull}
            /\ InTrace(trace', "pool_reset") \/ InTrace(trace', "pool_clear")
            /\ InTrace(trace', "matcher_run")
            /\ Pos(trace', "kill_matcher") < Pos(trace', "matcher_run")
            /\ item_pool'.cursor = 0]_vars

\* a matcher that had taken pool items was killed by a filter-query change,
\* and the matches of its successor are in the Selection once each
C19_Witness ==
    /\ pc = "loop"
    /\ changes >= 1
    /\ matcher_control = <<>>
    /\ Len(selection) >= 2
    /\ item_pool.cursor = Len(item_pool.items)
    /\ Len(item_pool.items) = 3

\* C20: whenever the status line is drawn the matcher's progress counter is
\* at most the pool length, so the percentage is never computed with a zero
\* total and never exceeds 100.
C20_ProcessedWithinTotal ==
    pc = "loop" =>
        LET st == DrawStatus(Cur)
        IN  /\ st.processed <= st.total
            /\ ShowsPercent(st) =>
                  /\ st.total > 0
                  /\ (st.processed * 100) \div st.total <= 100

\* the draw that closes a command-change iteration: pool cleared, new
\* matcher installed, old matches still in the Selection
C20_Witness ==
    /\ pc = "loop"
    /\ InTrace(trace, "pool_clear")
    /\ InTrace(trace, "draw")
    /\ matcher_control # <<>>
    /\ DrawStatus(Cur).total = 0
    /\ selection # <<>>

Reorderings(n) ==
    {f \in [1..n -> 1..n] : \A i, j \in 1..n : i # j => f[i] # f[j]}

Permute(seq, f) == [i \in 1..Len(seq) |-> seq[f[i]]]

\* the inverse of Split: the pieces with the separator between them
RECURSIVE Join(_, _)
Join(pieces, sep) ==
    IF Len(pieces) = 1 THEN pieces[1]
    ELSE pieces[1] \o <<sep>> \o Join(Tail(pieces), sep)

DirectionWords ==
    { <<"U", "P">>, <<"D", "O", "W", "N">>, <<"L", "E", "F", "T">>,
      <<"R", "I", "G", "H", "T">> }

IsDirectionToken(option) == ToUpperCase(option) \in DirectionWords

IsSizeToken(option) == option # <<>> /\ IsDigit(option[1])

IsRecognisedToken(option) ==
    \/ IsDirectionToken(option)
    \/ IsSizeToken(option)
    \/ ToUpperCase(option) \in { <<"H", "I", "D", "D", "E", "N">>,
                                 <<"W", "R", "A", "P">> }

\* every ordering of the pieces of the parsed option text gives the value
\* that parse_options stored
SameInEveryOrder ==
    LET options == Split(preview_window, ":")
    IN  \A f \in Reorderings(Len(options)) :
            parse_preview(Join(Permute(options, f), ":")) = preview[1]

\* without a recognised piece the stored value is (Right, 50%, no-wrap, shown)
DefaultsWithoutRecognisedToken ==
    LET options == Split(preview_window, ":")
    IN  (\A i \in 1..Len(options) : ~IsRecognisedToken(options[i])) =>
            preview[1] = [direction |-> "Right",
                          size |-> [unit |-> "Percent", n |-> 50],
                          wrap |-> FALSE, shown |-> TRUE]

\* two pieces name different directions, or different sizes
ConflictingTokens ==
    LET options == Split(preview_window, ":")
    IN  \E i, j \in 1..Len(options) :
            \/ /\ IsDirectionToken(options[i])
               /\ IsDirectionToken(options[j])
               /\ ToUpperCase(options[i]) # ToUpperCase(options[j])
            \/ /\ IsSizeToken(options[i])
               /\ IsSizeToken(options[j])
               /\ options[i] # options[j]

\* C16 as stated: every permutation of the pieces of a preview-window option
\* parses to the same (direction, size, wrap, shown), and without a
\* recognised piece the result is (Right, 50%, no-wrap, shown).
C16_OrderInsensitive ==
    preview # <<>> =>
        /\ SameInEveryOrder
        /\ DefaultsWithoutRecognisedToken

\* C16 amended: when no two pieces name different directions and no two
\* name different sizes, every permutation of the pieces parses to the same
\* (direction, size, wrap, shown); without a recognised piece the result is
\* (Right, 50%, no-wrap, shown).
C16_OrderInsensitiveWithoutConflict ==
    preview # <<>> =>
        /\ ~ConflictingTokens => SameInEveryOrder
        /\ DefaultsWithoutRecognisedToken

\* a three-piece option text with a lower-case direction, a size and WRAP
\* has been parsed
C16_Witness ==
    /\ preview # <<>>
    /\ Len(Split(preview_window, ":")) = 3
    /\ ~ConflictingTokens
    /\ preview[1] = [direction |-> Left, size |-> Percent(20),
                     wrap |-> TRUE, shown |-> TRUE]

====
